---- MODULE Spec2Model ----
(***************************************************************************)
(* Smart-Home-Security-System: the motion-triggered detection cycle of     *)
(* SecuritySystem.run (main.py), with the camera handle protocol of        *)
(* CameraManager (camera_manager.py), the access decision of               *)
(* ObjectDetector (detector.py) and the notification sends of TelegramBot  *)
(* (telegram_bot.py).                                                      *)
(*                                                                         *)
(* The program is one sequential process; pc is its position.  Every call  *)
(* into a collaborator (camera driver, inference library, ffmpeg, HTTP,    *)
(* GPIO, filesystem) either returns or raises; which one is chosen with \E.*)
(* Confidence scores are percentages (0.9 is 90).                          *)
(***************************************************************************)
EXTENDS Integers, Sequences, FiniteSets, TLC

\* ---------------------------------------------------------------- bounds
MaxDet == 2
MaxLeaked == 1
Scores == {85, 90, 95}

\* ------------------------------------------------------ program constants
max_retries == 3
confidence_threshold == 90

VARIABLES
    pc,                    \* position of the process
    config,                \* outcome of load_config and SecuritySystem.__init__
    exitCode,              \* process exit code once pc = "exited"
    picam2,                \* CameraManager.picam2: "None", or the state of the handle it refers to
    leaked,                \* handles opened on the device, dropped without being closed
    attempt,               \* loop variable of initialize_camera
    tries,                 \* initialization attempts made by the current initialize_camera call
    initResult,            \* how the current initialize_camera call ended: "none", "ok", "raised"
    capRaise,              \* TRUE when an exception is propagating out of a capture method
    capValue,              \* TRUE when the capture method has a return value
    disk,                  \* artifact files of this cycle that exist on disk
    h264_path, image_path, mp4_path, annotated_image_path,   \* run()'s locals: TRUE = a path, FALSE = None
    detection_result,      \* sequence of confidence scores returned by the detector
    access,                \* result of check_access this cycle: "none", "granted", "denied"
    message,               \* last value of format_detection_message
    buzzer,                \* "off", "on", "closed"
    buzzed,                \* buzz_buzzer was called this cycle
    ran,                   \* steps of the try body that were executed this cycle, in order
    sent,                  \* notification sends attempted this cycle, in order
    failedAt,              \* the step of the try body that raised, or "none"
    removeFailed,          \* files whose os.remove raised this cycle
    cleaned,               \* the cycle's finally block ran to its end
    pending,               \* exception propagating out of the cycle: "none", "error", "interrupt"
    interrupted            \* a KeyboardInterrupt was delivered

vars == <<pc, config, exitCode, picam2, leaked, attempt, tries, initResult, capRaise, capValue,
          disk, h264_path, image_path, mp4_path, annotated_image_path,
          detection_result, access, message, buzzer, buzzed, ran, sent,
          failedAt, removeFailed, cleaned, pending, interrupted>>

camVars   == <<picam2, leaked, attempt, tries, initResult, capRaise, capValue>>
pathVars  == <<h264_path, image_path, mp4_path, annotated_image_path>>
detVars   == <<detection_result, access, message>>
buzzVars  == <<buzzer, buzzed>>
exitVars  == <<config, exitCode, pending, interrupted>>
cycleVars == <<ran, sent, failedAt, removeFailed, cleaned>>

Artifacts == {"h264", "mp4", "image", "annotated"}
TrySteps  == <<"video", "image", "detect", "access", "transcode",
               "send_text", "send_video", "send_photo">>

DetectionResults == UNION {[1..n -> Scores] : n \in 0..MaxDet}

\* ------------------------------------------------------- detector.py
MeetsThreshold_gt(confidence) == confidence > confidence_threshold
MeetsThreshold_above(confidence) == confidence >= confidence_threshold + 5
MeetsThreshold(confidence) == confidence >= confidence_threshold

\* the for loop of check_access, from detection i on
RECURSIVE check_access_loop(_, _)
check_access_loop(detections, i) ==
    IF i > Len(detections) THEN FALSE
    ELSE IF MeetsThreshold(detections[i]) THEN TRUE
    ELSE check_access_loop(detections, i + 1)

check_access(detections) ==
    IF Len(detections) = 0 THEN FALSE
    ELSE check_access_loop(detections, 1)

\* one entry of the message per detection: its confidence and its annotation
RECURSIVE format_loop(_, _, _)
format_loop(detections, i, entries) ==
    IF i > Len(detections) THEN entries
    ELSE format_loop(detections, i + 1,
            Append(entries, [confidence |-> detections[i],
                             mark |-> IF detections[i] >= confidence_threshold
                                      THEN "granted" ELSE "denied"]))

format_detection_message_overall(detections) ==
    IF Len(detections) = 0 THEN [sentinel |-> TRUE, entries |-> <<>>]
    ELSE [sentinel |-> FALSE,
          entries |-> [i \in 1..Len(detections) |->
                          [confidence |-> detections[i],
                           mark |-> IF check_access(detections)
                                    THEN "granted" ELSE "denied"]]]

format_detection_message(detections) ==
    IF Len(detections) = 0 THEN [sentinel |-> TRUE, entries |-> <<>>]
    ELSE [sentinel |-> FALSE, entries |-> format_loop(detections, 1, <<>>)]

\* detect_objects returns a path iff there is at least one detection
AnnotatedPath_always(detections) == TRUE
AnnotatedPath(detections) == Len(detections) > 0

\* ------------------------------------------------------- camera_manager.py
\* the attempt after which initialize_camera raises instead of retrying
IsLastAttempt_early(a) == ~(a < max_retries - 2)
IsLastAttempt(a) == ~(a < max_retries - 1)

\* outcomes of one pass through the try block of initialize_camera
InitOutcomes(h) ==
    {"ctor_raises", "config_raises", "ok"} \cup (IF h = "None" THEN {} ELSE {"close_raises"})

\* self.picam2 after one pass through the try block
InitHandle(h, outcome) ==
    CASE outcome = "close_raises"  -> h
      [] outcome = "ctor_raises"   -> IF h = "None" THEN "None" ELSE "closed"
      [] outcome = "config_raises" -> "open"
      [] outcome = "ok"            -> "open"

\* outcomes of stop(); close() in CameraManager.cleanup
CleanupOutcomes(h) ==
    IF h = "None" THEN {"ok"} ELSE {"ok", "stop_raises", "close_raises"}

\* self.picam2 after CameraManager.cleanup: the finally clause clears it
cleanup_handle_nofinally(h, outcome) == IF outcome = "ok" THEN "None" ELSE h
cleanup_handle_stop(h, outcome) == IF outcome = "stop_raises" THEN h ELSE "None"
cleanup_handle(h, outcome) == "None"

\* handles left open on the device by CameraManager.cleanup
cleanup_leak(h, outcome) ==
    IF h = "open" /\ outcome # "ok" THEN 1 ELSE 0

\* the files left by cleanup_files and remove_annotated_image: a tracked file
\* is removed unless os.remove raised for it
RemoveTracked_abort(files, tracked, failing) ==
    IF failing = {} THEN files \ tracked ELSE files

RemoveTracked(files, tracked, failing) == files \ (tracked \ failing)

\* the files after ffmpeg wrote the mp4: the h264 source is kept
StoredVideo_move(files) == (files \ {"h264"}) \cup {"mp4"}
StoredVideo(files) == files \cup {"mp4"}

\* the argument video_paths of cleanup_files as run() builds it
VideoPaths(h, m) ==
    IF h \/ m THEN (IF h THEN {"h264"} ELSE {}) \cup (IF m THEN {"mp4"} ELSE {})
    ELSE {}

\* ------------------------------------------------------- main.py
\* the sends made by the except clause of the cycle
error_sends_none(s) == s
error_sends(s) == Append(s, "error")

\* the branch run() takes on the result of check_access
AccessBranch_inverted(granted) == IF granted THEN "buzz" ELSE "grant"
AccessBranch(granted) == IF granted THEN "grant" ELSE "buzz"

\* where run() continues after send_video: the photo is sent iff a path exists
AfterVideo(annotated) == IF annotated THEN "send_photo" ELSE "cleanup_files"

\* where the process continues after the cycle's finally block
AfterCycle_exit(p) == IF p = "none" THEN "delay" ELSE "exited"
AfterCycle(p) == IF p = "none" THEN "delay" ELSE "final"

Init ==
    /\ pc = "start"
    /\ config = "unread"
    /\ exitCode = -1
    /\ picam2 = "None"
    /\ leaked = 0
    /\ attempt = 0
    /\ tries = 0
    /\ initResult = "none"
    /\ capRaise = FALSE
    /\ capValue = FALSE
    /\ disk = {}
    /\ h264_path = FALSE
    /\ image_path = FALSE
    /\ mp4_path = FALSE
    /\ annotated_image_path = FALSE
    /\ detection_result = <<>>
    /\ access = "none"
    /\ message = [sentinel |-> TRUE, entries |-> <<>>]
    /\ buzzer = "off"
    /\ buzzed = FALSE
    /\ ran = <<>>
    /\ sent = <<>>
    /\ failedAt = "none"
    /\ removeFailed = {}
    /\ cleaned = FALSE
    /\ pending = "none"
    /\ interrupted = FALSE

\* an exception raised by a step of the try body: the except clause is next
Raise_swallowed(step) ==
    /\ failedAt' = step
    /\ ran' = Append(ran, step)
    /\ pc' = IF step = "transcode" THEN "send_text" ELSE "err_notify"

Raise(step) ==
    /\ failedAt' = step
    /\ ran' = Append(ran, step)
    /\ pc' = "err_notify"

\* a step of the try body that returned
Return(step, next) ==
    /\ failedAt' = failedAt
    /\ ran' = Append(ran, step)
    /\ pc' = next

\* CameraManager.cleanup with the given outcome of stop() and close()
cleanup(outcome) ==
    /\ leaked + cleanup_leak(picam2, outcome) <= MaxLeaked
    /\ picam2' = cleanup_handle(picam2, outcome)
    /\ leaked' = leaked + cleanup_leak(picam2, outcome)

\* the configuration files the program may be started with
ConfigFiles == {"ok", "missing", "bad_json", "no_key"}

\* load_config: None for a missing file and for invalid JSON, else the dict
load_config(c) == IF c \in {"missing", "bad_json"} THEN "None" ELSE "dict"

\* startup ends the process: sys.exit(1) when load_config returned None, and
\* the KeyError of a missing required key caught by main(), which exits with 1
StartupExits_none(c) == load_config(c) = "None"
StartupExits(c) == load_config(c) = "None" \/ c = "no_key"

\* main() and SecuritySystem.__init__: load_config, then the devices
Startup ==
    /\ pc = "start"
    /\ \E c \in ConfigFiles :
          /\ config' = c
          /\ IF StartupExits(c) THEN pc' = "exited" /\ exitCode' = 1
                                ELSE pc' = "idle" /\ exitCode' = exitCode
    /\ UNCHANGED <<camVars, disk, pathVars, detVars, buzzVars, cycleVars, pending, interrupted>>

\* pir_sensor.wait_for_motion() returns; the cycle's locals are reset
wait_for_motion ==
    /\ pc = "idle"
    /\ pc' = "video_init"
    /\ h264_path' = FALSE /\ image_path' = FALSE
    /\ mp4_path' = FALSE /\ annotated_image_path' = FALSE
    /\ disk' = {}
    /\ detection_result' = <<>> /\ access' = "none"
    /\ message' = [sentinel |-> TRUE, entries |-> <<>>]
    /\ buzzed' = FALSE
    /\ ran' = <<>> /\ sent' = <<>> /\ failedAt' = "none"
    /\ removeFailed' = {} /\ cleaned' = FALSE
    /\ attempt' = 0 /\ tries' = 0 /\ initResult' = "none"
    /\ capRaise' = FALSE /\ capValue' = FALSE
    /\ UNCHANGED <<picam2, leaked, buzzer, exitVars>>

\* one iteration of the retry loop of initialize_camera, called by the
\* capture method at position p; rec is the position after a successful start
initialize_camera(p, rec, fin) ==
    /\ pc = p
    /\ \E outcome \in InitOutcomes(picam2) :
          /\ picam2' = InitHandle(picam2, outcome)
          /\ tries' = tries + 1
          /\ IF outcome = "ok"
             THEN /\ initResult' = "ok"
                  /\ pc' = rec
                  /\ UNCHANGED <<attempt, capRaise>>
             ELSE IF IsLastAttempt(attempt)
             THEN /\ initResult' = "raised"
                  /\ capRaise' = TRUE
                  /\ pc' = fin
                  /\ UNCHANGED attempt
             ELSE /\ attempt' = attempt + 1
                  /\ pc' = p
                  /\ UNCHANGED <<initResult, capRaise>>
    /\ UNCHANGED <<leaked, capValue, disk, pathVars, detVars, buzzVars, cycleVars, exitVars>>

initialize_camera_video == initialize_camera("video_init", "video_rec", "video_fin")
initialize_camera_preview == initialize_camera("image_init", "image_cap", "image_fin")

\* capture_h264_video after initialization: start_recording, sleep, stop_recording
record_video ==
    /\ pc = "video_rec"
    /\ \E outcome \in {"raise_nofile", "raise_file", "ok"} :
          /\ disk' = IF outcome = "raise_nofile" THEN disk ELSE disk \cup {"h264"}
          /\ capRaise' = (outcome # "ok")
          /\ capValue' = (outcome = "ok")
    /\ pc' = "video_fin"
    /\ UNCHANGED <<picam2, leaked, attempt, tries, initResult, pathVars, detVars,
                   buzzVars, cycleVars, exitVars>>

\* capture_image after initialization: capture_array, resize, flip, imwrite
capture_frame ==
    /\ pc = "image_cap"
    /\ \E outcome \in {"raise", "ok_written", "ok_unwritten"} :
          /\ disk' = IF outcome = "ok_written" THEN disk \cup {"image"} ELSE disk
          /\ capRaise' = (outcome = "raise")
          /\ capValue' = (outcome # "raise")
    /\ pc' = "image_fin"
    /\ UNCHANGED <<picam2, leaked, attempt, tries, initResult, pathVars, detVars,
                   buzzVars, cycleVars, exitVars>>

\* the finally clause of capture_h264_video, then its return or raise into run()
capture_h264_video_exit ==
    /\ pc = "video_fin"
    /\ \E outcome \in CleanupOutcomes(picam2) : cleanup(outcome)
    /\ IF capRaise
       THEN Raise("video") /\ UNCHANGED h264_path
       ELSE Return("video", "image_init") /\ h264_path' = capValue
    /\ attempt' = 0 /\ tries' = 0 /\ initResult' = "none"
    /\ capRaise' = FALSE /\ capValue' = FALSE
    /\ UNCHANGED <<disk, image_path, mp4_path, annotated_image_path, detVars, buzzVars,
                   sent, removeFailed, cleaned, exitVars>>

\* the finally clause of capture_image, then its return or raise into run()
capture_image_exit ==
    /\ pc = "image_fin"
    /\ \E outcome \in CleanupOutcomes(picam2) : cleanup(outcome)
    /\ IF capRaise
       THEN Raise("image") /\ UNCHANGED image_path
       ELSE Return("image", "detect") /\ image_path' = capValue
    /\ attempt' = 0 /\ tries' = 0 /\ initResult' = "none"
    /\ capRaise' = FALSE /\ capValue' = FALSE
    /\ UNCHANGED <<disk, h264_path, mp4_path, annotated_image_path, detVars, buzzVars,
                   sent, removeFailed, cleaned, exitVars>>

\* detect_objects: inference, the annotated image written when there is a
\* detection, detector.close(), and the returned pair
detect_objects ==
    /\ pc = "detect"
    /\ \/ /\ Raise("detect")
          /\ \/ UNCHANGED disk
             \/ disk' = disk \cup {"annotated"}
          /\ UNCHANGED <<detection_result, annotated_image_path>>
       \/ \E r \in DetectionResults :
             /\ detection_result' = r
             /\ annotated_image_path' = AnnotatedPath(r)
             /\ disk' = IF Len(r) > 0 THEN disk \cup {"annotated"} ELSE disk
             /\ Return("detect", "access")
    /\ UNCHANGED <<camVars, h264_path, image_path, mp4_path, access, message, buzzVars,
                   sent, removeFailed, cleaned, exitVars>>

\* check_access and the branch on it: handle_access_granted, or buzz_buzzer up
\* to the assignment buzzer.value = 0.5
access_decision ==
    /\ pc = "access"
    /\ access' = IF check_access(detection_result) THEN "granted" ELSE "denied"
    /\ IF AccessBranch(check_access(detection_result)) = "grant"
       THEN Return("access", "transcode") /\ UNCHANGED buzzVars
       ELSE /\ buzzed' = TRUE
            /\ \/ buzzer' = "on" /\ pc' = "buzzing" /\ UNCHANGED <<ran, failedAt>>
               \/ Raise("access") /\ UNCHANGED buzzer
    /\ UNCHANGED <<camVars, disk, pathVars, detection_result, message,
                   sent, removeFailed, cleaned, exitVars>>

\* buzz_buzzer after the sleep: buzzer.off()
buzz_off ==
    /\ pc = "buzzing"
    /\ \/ buzzer' = "off" /\ Return("access", "transcode")
       \/ Raise("access") /\ UNCHANGED buzzer
    /\ UNCHANGED <<camVars, disk, pathVars, detVars, buzzed,
                   sent, removeFailed, cleaned, exitVars>>

\* store_converted_video: ffmpeg writes the mp4, or exits non-zero
store_converted_video ==
    /\ pc = "transcode"
    /\ \/ /\ Raise("transcode")
          /\ \/ UNCHANGED disk
             \/ disk' = StoredVideo(disk)
          /\ UNCHANGED mp4_path
       \/ /\ Return("transcode", "send_text")
          /\ disk' = StoredVideo(disk)
          /\ mp4_path' = TRUE
    /\ UNCHANGED <<camVars, h264_path, image_path, annotated_image_path, detVars, buzzVars,
                   sent, removeFailed, cleaned, exitVars>>

\* format_detection_message and telegram_bot.send_message
send_message ==
    /\ pc = "send_text"
    /\ message' = format_detection_message(detection_result)
    /\ sent' = Append(sent, "text")
    /\ \/ Return("send_text", "send_video")
       \/ Raise("send_text")
    /\ UNCHANGED <<camVars, disk, pathVars, detection_result, access, buzzVars,
                   removeFailed, cleaned, exitVars>>

\* telegram_bot.send_video(mp4_path)
send_video ==
    /\ pc = "send_video"
    /\ sent' = Append(sent, "video")
    /\ \/ Return("send_video", AfterVideo(annotated_image_path))
       \/ Raise("send_video")
    /\ UNCHANGED <<camVars, disk, pathVars, detVars, buzzVars,
                   removeFailed, cleaned, exitVars>>

\* telegram_bot.send_photo(annotated_image_path)
send_photo ==
    /\ pc = "send_photo"
    /\ sent' = Append(sent, "photo")
    /\ \/ Return("send_photo", "cleanup_files")
       \/ Raise("send_photo")
    /\ UNCHANGED <<camVars, disk, pathVars, detVars, buzzVars,
                   removeFailed, cleaned, exitVars>>

\* the except clause of the cycle: send_message with the error text; an
\* exception raised by that send leaves the handler and propagates
error_handler ==
    /\ pc = "err_notify"
    /\ sent' = error_sends(sent)
    /\ \/ UNCHANGED pending
       \/ pending' = "error"
    /\ pc' = "cleanup_files"
    /\ UNCHANGED <<camVars, disk, pathVars, detVars, buzzVars, ran, failedAt,
                   removeFailed, cleaned, config, exitCode, interrupted>>

\* the finally clause of the cycle, first call: cleanup_files
cleanup_files ==
    /\ pc = "cleanup_files"
    /\ LET tracked == VideoPaths(h264_path, mp4_path)
                         \cup (IF image_path THEN {"image"} ELSE {})
       IN \E failing \in SUBSET (tracked \cap disk) :
             /\ disk' = RemoveTracked(disk, tracked, failing)
             /\ removeFailed' = failing
    /\ pc' = IF annotated_image_path THEN "remove_annotated" ELSE "camera_cleanup"
    /\ UNCHANGED <<camVars, pathVars, detVars, buzzVars, ran, sent, failedAt,
                   cleaned, exitVars>>

\* the finally clause of the cycle: remove_annotated_image when a path exists
remove_annotated_image ==
    /\ pc = "remove_annotated"
    /\ \E failing \in SUBSET ({"annotated"} \cap disk) :
          /\ disk' = RemoveTracked(disk, {"annotated"}, failing)
          /\ removeFailed' = removeFailed \cup failing
    /\ pc' = "camera_cleanup"
    /\ UNCHANGED <<camVars, pathVars, detVars, buzzVars, ran, sent, failedAt,
                   cleaned, exitVars>>

\* the finally clause of the cycle, last call: camera_manager.cleanup(); then
\* a propagating exception leaves the loop, otherwise the delay follows
camera_cleanup ==
    /\ pc = "camera_cleanup"
    /\ \E outcome \in CleanupOutcomes(picam2) : cleanup(outcome)
    /\ cleaned' = TRUE
    /\ pc' = AfterCycle(pending)
    /\ UNCHANGED <<attempt, tries, initResult, capRaise, capValue, disk, pathVars,
                   detVars, buzzVars, ran, sent, failedAt, removeFailed, exitVars>>

\* time.sleep(5), then the loop waits for motion again
quiescence_delay ==
    /\ pc = "delay"
    /\ pc' = "idle"
    /\ UNCHANGED <<camVars, disk, pathVars, detVars, buzzVars, cycleVars, exitVars>>

\* the outer finally of run(): buzzer.close() and camera_manager.cleanup();
\* a KeyboardInterrupt was caught by run(), any other exception reaches main()
\* (buzzer.close() is the device's teardown call and is taken to return)
final_cleanup ==
    /\ pc = "final"
    /\ buzzer' = "closed"
    /\ \E outcome \in CleanupOutcomes(picam2) : cleanup(outcome)
    /\ exitCode' = IF pending = "error" THEN 1 ELSE 0
    /\ pc' = "exited"
    /\ UNCHANGED <<attempt, tries, initResult, capRaise, capValue, disk, pathVars,
                   detVars, buzzed, cycleVars, config, pending, interrupted>>

CapturePcs == {"video_init", "video_rec", "video_fin", "image_init", "image_cap", "image_fin"}
BodyPcs    == {"detect", "access", "buzzing", "transcode", "send_text", "send_video",
               "send_photo", "err_notify"}
CleanupPcs == {"cleanup_files", "remove_annotated", "camera_cleanup"}
WaitPcs    == {"idle", "delay"}

\* a KeyboardInterrupt delivered between two steps of run(): inside a capture
\* method its finally clause runs first, inside the try body the cycle's
\* finally block is next, elsewhere the outer finally
Interrupt ==
    /\ ~interrupted
    /\ pc \in CapturePcs \cup BodyPcs \cup CleanupPcs \cup WaitPcs
    /\ interrupted' = TRUE
    /\ pending' = "interrupt"
    /\ IF pc \in CapturePcs
       THEN \E outcome \in CleanupOutcomes(picam2) : cleanup(outcome)
       ELSE UNCHANGED <<picam2, leaked>>
    /\ pc' = IF pc \in CapturePcs \cup BodyPcs THEN "cleanup_files" ELSE "final"
    /\ UNCHANGED <<attempt, tries, initResult, capRaise, capValue, disk, pathVars,
                   detVars, buzzVars, cycleVars, config, exitCode>>

Step ==
    \/ Startup
    \/ wait_for_motion
    \/ initialize_camera_video
    \/ record_video
    \/ capture_h264_video_exit
    \/ initialize_camera_preview
    \/ capture_frame
    \/ capture_image_exit
    \/ detect_objects
    \/ access_decision
    \/ buzz_off
    \/ store_converted_video
    \/ send_message
    \/ send_video
    \/ send_photo
    \/ error_handler
    \/ cleanup_files
    \/ remove_annotated_image
    \/ camera_cleanup
    \/ quiescence_delay
    \/ final_cleanup

Next == Step \/ Interrupt

Spec == Init /\ [][Next]_vars

\* every call returns or raises, so the process always takes its next step
FairSpec == Spec /\ WF_vars(Step)

TypeOK ==
    /\ pc \in {"start", "idle", "delay", "final", "exited"} \cup CapturePcs \cup BodyPcs \cup CleanupPcs
    /\ picam2 \in {"None", "open", "closed"}
    /\ leaked \in 0..MaxLeaked
    /\ disk \subseteq Artifacts
    /\ detection_result \in DetectionResults
    /\ buzzer \in {"off", "on", "closed"}

\* ------------------------------------------------------------- properties
StepIndex(s) == CHOOSE i \in 1..Len(TrySteps) : TrySteps[i] = s
Count(seq, x) == Cardinality({i \in 1..Len(seq) : seq[i] = x})
IsPrefix(a, b) == Len(a) <= Len(b) /\ \A i \in 1..Len(a) : a[i] = b[i]
CycleOver == pc \in {"delay", "idle"} \/ (pc \in {"final", "exited"} /\ ~interrupted)
DetectDone == \E i \in 1..Len(ran) : ran[i] = "detect" /\ failedAt # "detect"
SomeDetectionMeets ==
    \E i \in 1..Len(detection_result) : detection_result[i] >= confidence_threshold
LiveHandles == leaked + (IF picam2 = "open" THEN 1 ELSE 0)
VideoPcs == {"video_init", "video_rec", "video_fin"}
ImagePcs == {"image_init", "image_cap", "image_fin"}

\* C1: when a step of the try body raises, the steps run are exactly the
\* ones up to the raising step (none later), the except clause attempts
\* exactly one error notification, and the cycle's cleanup then runs to its end.
C1_ErrorSkipsToCleanup ==
    failedAt # "none" =>
        /\ ran # <<>>
        /\ ran[Len(ran)] = failedAt
        /\ \A i, j \in 1..Len(ran) : i < j => StepIndex(ran[i]) < StepIndex(ran[j])
        /\ pc \in {"err_notify", "delay", "idle", "final", "exited"} \cup CleanupPcs
        /\ (pc = "err_notify" => Count(sent, "error") = 0)
        /\ (pc # "err_notify" /\ ~interrupted => Count(sent, "error") = 1)
        /\ Count(sent, "error") <= 1
        /\ (CycleOver => cleaned)

C1_Witness ==
    /\ failedAt = "transcode"
    /\ pc = "delay"
    /\ cleaned
    /\ Count(sent, "error") = 1

\* C2: the process leaves the run loop only on an external interrupt or a
\* startup failure; no error raised inside a cycle terminates it.
C2_CycleErrorNeverTerminates ==
    pc \in {"final", "exited"} => (interrupted \/ config # "ok")

\* C3: every cycle that starts eventually runs its cleanup to the end and
\* returns to waiting for motion (unless an external interrupt stops the loop).
C3_CycleReturnsToIdle ==
    (pc = "video_init") ~> ((pc = "idle" /\ cleaned) \/ interrupted)

\* C4: when the loop is back to waiting for motion, no artifact file produced
\* during the cycle is left on disk (other than one whose deletion itself raised).
C4_NoArtifactLeft ==
    pc \in {"delay", "idle"} => disk \ removeFailed = {}

\* C5: at most one camera handle is open on the device at any time.
C5_AtMostOneLiveHandle == LiveHandles <= 1

\* C6: whenever capture_h264_video or capture_image is left, by return or by
\* an exception, picam2 is None.
C6_CaptureExitReleases ==
    [][ (\/ pc \in VideoPcs /\ pc' \notin VideoPcs
         \/ pc \in ImagePcs /\ pc' \notin ImagePcs) => picam2' = "None" ]_vars

C6_Witness ==
    /\ pc = "err_notify"
    /\ failedAt = "image"
    /\ picam2 = "None"
    /\ leaked = 0

\* C7: initialize_camera makes at most max_retries attempts, makes no attempt
\* after a successful one, and raises only when exactly max_retries attempts failed.
C7_RetryBound ==
    /\ tries <= max_retries
    /\ (initResult = "raised" => tries = max_retries)
    /\ (initResult = "ok" => pc \notin {"video_init", "image_init"})
    /\ (pc \in {"video_init", "image_init"} => initResult = "none" /\ tries = attempt)

C7_Witness ==
    /\ initResult = "raised"
    /\ tries = max_retries
    /\ pc = "video_fin"

\* C8: check_access is true iff some detection has confidence >= threshold;
\* it is false for the empty list and when every confidence is below threshold.
C8_CheckAccess ==
    access # "none" =>
        /\ (access = "granted") = SomeDetectionMeets
        /\ (Len(detection_result) = 0 => access = "denied")

C8_Witness ==
    /\ access = "granted"
    /\ Len(detection_result) = 2
    /\ detection_result[1] < confidence_threshold
    /\ detection_result[2] = confidence_threshold

\* C9: the buzzer is activated iff detection completed and check_access
\* returned false; never when access was granted, never before detection completed.
C9_BuzzerIffDenied ==
    /\ (buzzed => DetectDone /\ access = "denied")
    /\ (access = "granted" => ~buzzed)
    /\ (access = "denied" => buzzed)
    /\ (~DetectDone => ~buzzed /\ access = "none")

C9_Witness ==
    /\ buzzed
    /\ access = "denied"
    /\ buzzer = "off"
    /\ pc = "transcode"

\* C10: in a cycle where no step fails the sends are text, video, photo in
\* that order, each at most once, the photo iff there is at least one detection.
C10_NotificationOrder ==
    /\ (failedAt = "none" => IsPrefix(sent, <<"text", "video", "photo">>))
    /\ (failedAt = "none" /\ ~interrupted /\ ran # <<>>
            /\ pc \in CleanupPcs \cup {"delay", "idle"} =>
          sent = IF Len(detection_result) > 0 THEN <<"text", "video", "photo">>
                                              ELSE <<"text", "video">>)

C10_Witness ==
    /\ pc = "delay"
    /\ failedAt = "none"
    /\ sent = <<"text", "video", "photo">>
    /\ Len(detection_result) > 0

\* the number of steps of the try body that precede the given position
StepsBefore(p) ==
    CASE p \in VideoPcs -> 0
      [] p \in ImagePcs -> 1
      [] p = "detect" -> 2
      [] p \in {"access", "buzzing"} -> 3
      [] p = "transcode" -> 4
      [] p = "send_text" -> 5
      [] p = "send_video" -> 6
      [] p = "send_photo" -> 7

C11_StepsInOrder ==
    /\ \A i \in 1..Len(ran) : ran[i] = TrySteps[i]
    /\ (failedAt # "none" => ran # <<>> /\ ran[Len(ran)] = failedAt)
    /\ (pc \in CapturePcs \cup (BodyPcs \ {"err_notify"}) =>
            failedAt = "none" /\ Len(ran) = StepsBefore(pc))
    /\ (Count(sent, "video") > 0 =>
            mp4_path /\ Len(ran) >= 5 /\ failedAt # "transcode")

\* C11: the steps of a cycle run only in the order video, image, detection,
\* access, transcode, notify, cleanup; a step runs only when every earlier
\* step of the cycle returned (the video is sent only after a successful
\* transcode); a cycle starts only from Idle, after the previous cycle's
\* cleanup ran to its end.
C11_CycleOrder ==
    /\ []C11_StepsInOrder
    /\ [][ (pc' = "video_init" /\ pc # "video_init") =>
              (pc = "idle" /\ (cleaned \/ ran = <<>>)) ]_vars
    /\ [][ (pc' = "idle" /\ pc # "idle") =>
              (pc \in {"start", "delay"} /\ (pc = "delay" => cleaned)) ]_vars
    /\ [][ (pc \in CleanupPcs) => (ran' = ran /\ sent' = sent) ]_vars

C11_Witness ==
    /\ pc = "idle"
    /\ cleaned
    /\ ran = TrySteps
    /\ failedAt = "none"

C13_FormatMessage ==
    Count(sent, "text") > 0 =>
        /\ message.sentinel = (Len(detection_result) = 0)
        /\ Len(message.entries) = Len(detection_result)
        /\ \A i \in 1..Len(detection_result) :
              /\ message.entries[i].confidence = detection_result[i]
              /\ message.entries[i].mark \in {"granted", "denied"}
              /\ (message.entries[i].mark = "granted")
                    = (detection_result[i] >= confidence_threshold)

C13_Witness ==
    /\ Count(sent, "text") > 0
    /\ detection_result = <<95, 85>>
    /\ message.entries[1].mark = "granted"
    /\ message.entries[2].mark = "denied"

CleanupCallPcs == {"video_fin", "image_fin", "camera_cleanup", "final"}

\* C14: CameraManager.cleanup leaves picam2 None after every call, whether or
\* not stop or close raised; with no live handle it changes nothing (so a
\* second call in a row changes nothing); and it never propagates an error:
\* the caller continues as if cleanup had returned normally.
C14_CleanupIdempotent ==
    /\ [][ (pc \in CleanupCallPcs /\ pc' # pc) =>
              /\ picam2' = "None"
              /\ (picam2 = "None" => leaked' = leaked) ]_vars
    /\ [][ (pc = "video_fin" /\ ~capRaise /\ ~interrupted') =>
              (pc' = "image_init" /\ failedAt' = "none") ]_vars
    /\ [][ (pc = "camera_cleanup" /\ pending = "none" /\ ~interrupted') =>
              (pc' = "delay" /\ cleaned') ]_vars

C14_Witness ==
    /\ pc = "delay"
    /\ cleaned
    /\ leaked = 1
    /\ picam2 = "None"
    /\ failedAt = "none"

\* C15: with a missing configuration file, invalid JSON or a missing required
\* key the process exits with code 1 before the run loop is entered: no motion
\* wait, capture or notification ever happens.
C15_BadConfigExits ==
    config \in {"missing", "bad_json", "no_key"} =>
        /\ pc = "exited"
        /\ exitCode = 1
        /\ ran = <<>> /\ sent = <<>>
        /\ disk = {} /\ picam2 = "None" /\ tries = 0
        /\ ~cleaned /\ ~buzzed /\ ~interrupted

C15_Witness ==
    /\ config = "no_key"
    /\ pc = "exited"
    /\ exitCode = 1

\* the artifacts whose paths run() holds when the finally block starts
TrackedPaths ==
    VideoPaths(h264_path, mp4_path)
        \cup (IF image_path THEN {"image"} ELSE {})
        \cup (IF annotated_image_path THEN {"annotated"} ELSE {})

\* C16: in the cycle's cleanup every tracked artifact is handled on its own:
\* once the cleanup has run, each tracked file is gone unless its own deletion
\* failed, the camera was released, and no deletion failure (nor a None or
\* missing path) raised out of the cleanup.
C16_IndependentDeletion ==
    /\ [](cleaned => ((disk \cap TrackedPaths) \subseteq removeFailed /\ picam2 = "None"))
    /\ [][ (pc = "cleanup_files" /\ ~interrupted') =>
              (pc' \in {"remove_annotated", "camera_cleanup"} /\ pending' = pending) ]_vars
    /\ [][ (pc = "remove_annotated" /\ ~interrupted') =>
              (pc' = "camera_cleanup" /\ pending' = pending) ]_vars

C16_Witness ==
    /\ pc = "delay"
    /\ cleaned
    /\ removeFailed = {"h264"}
    /\ mp4_path /\ image_path /\ annotated_image_path
    /\ disk = {"h264"}

\* C17: when an external interrupt arrives while a cycle is in progress, every
\* artifact file the cycle already produced is deleted before the process
\* exits (other than one whose deletion itself raised).
C17_InterruptDeletesArtifacts ==
    (interrupted /\ pc = "exited") => disk \ removeFailed = {}

\* C18: within a cycle a file is deleted only by the cycle's cleanup, which
\* starts after the notify step and the error notification are over: the files
\* send_video and send_photo refer to exist when the send is made, and no send
\* is made once the cleanup has started.
C18_DeleteAfterNotify ==
    /\ [](pc = "send_video" => "mp4" \in disk)
    /\ [](pc = "send_photo" => "annotated" \in disk)
    /\ [][ (pc # "idle" /\ ~(disk \subseteq disk')) =>
              pc \in {"cleanup_files", "remove_annotated"} ]_vars
    /\ [][ (pc \in CleanupPcs) => sent' = sent ]_vars

C18_Witness ==
    /\ pc = "camera_cleanup"
    /\ sent = <<"text", "video", "photo">>
    /\ removeFailed = {}
    /\ disk = {}
    /\ ~interrupted

\* C19: whenever the loop waits for motion or the process has exited, the
\* buzzer output is not sounding.
C19_BuzzerSilentAtRest ==
    pc \in {"idle", "exited"} => buzzer # "on"

\* C20: check_access is true iff format_detection_message marks at least one
\* detection granted; no summary marks a detection granted while check_access
\* is false (a summary may still mark some detection denied while check_access
\* is true: the witness).
C20_AccessAgreesWithSummary ==
    Count(sent, "text") > 0 =>
        /\ (access = "granted")
              = (\E i \in 1..Len(message.entries) : message.entries[i].mark = "granted")
        /\ (access = "denied" =>
              \A i \in 1..Len(message.entries) : message.entries[i].mark = "denied")

C20_Witness ==
    /\ Count(sent, "text") > 0
    /\ access = "granted"
    /\ \E i \in 1..Len(message.entries) : message.entries[i].mark = "denied"

====
